---------------------------- MODULE Spec2Model ----------------------------
(***************************************************************************)
(* Model of the LED control RPC pair of dds_led_control_rpc:               *)
(*   client.cpp  LedClient: request counter, pending-request table,        *)
(*               response drain and timeout sweep, driver loop;            *)
(*   server.cpp  LedServer: LED state array, request processor, driver     *)
(*               loop.                                                     *)
(* The DDS transport is the environment: it fills the readers' caches with *)
(* samples (valid or invalid, in any order, possibly repeated) and its     *)
(* write and take calls may throw dds::core::Exception.                    *)
(*                                                                         *)
(* Time is the steady clock in whole seconds.  The client and the server   *)
(* are two processes that share nothing but the transport; SpecClient and  *)
(* SpecServer run each of them against every input the transport can hand  *)
(* it.  SpecClientMain runs the client process from the start of main(),   *)
(* with its main thread and its signal handler; SpecSharedChannel runs the *)
(* client on channels it shares with another session of the client         *)
(* program.                                                                *)
(***************************************************************************)
EXTENDS Integers, Sequences, FiniteSets, TLC

(***************************************************************************)
(* Bounds of the model.                                                    *)
(***************************************************************************)
\* the steady clock runs from 0 to MaxTime
MaxTime == 7
\* samples one take() returns
MaxBatch == 2

(***************************************************************************)
(* Program constants.                                                      *)
(***************************************************************************)
\* `now - it->second > 5s`
Deadline == 5
\* duration_cast<std::chrono::milliseconds>
MsPerSecond == 1000
\* the end() iterator of pending_requests (no key)
End == -1

Colors == {"RED", "GREEN", "BLUE"}

\* static_cast<int>(request.color()): RED, GREEN, BLUE are 0, 1, 2
color_index(color) ==
    CASE color = "RED" -> 0
      [] color = "GREEN" -> 1
      [] color = "BLUE" -> 2

\* the three requests run() sends before its loop
InitialRequests ==
    << [color |-> "RED", state |-> TRUE],
       [color |-> "GREEN", state |-> TRUE],
       [color |-> "BLUE", state |-> TRUE] >>

VARIABLES
    now,               \* steady clock
    \* ---- client process (client.cpp)
    client_pc,         \* "initial" | "loop" | "terminated" | "returned"
    initial_sent,      \* initial requests of run() sent so far
    running,           \* LedClient::running
    request_counter,   \* LedClient::request_counter
    pending_requests,  \* LedClient::pending_requests: id -> issue time
    request_topic,     \* the requests this client has published
    out,               \* what the client printed: match and timeout events
    stale_dropped,     \* history: the drain has dropped a valid response to
                       \* a request of this session that was not pending
    written,           \* history: the requests request_writer has written,
                       \* in order
    foreign_matched,   \* history: the drain has matched a response that the
                       \* server produced for another session's request
    main_pc,           \* main(): "construct" | "wait" | "join" |
                       \* "return 0" | "return 1"
    shutdown_flag,     \* shutdown_flag of client.cpp
    server_matched,    \* transport: request_writer has a matched reader
    \* ---- server process (server.cpp)
    server_pc,         \* "take" | "process" | "returned"
    server_running,    \* LedServer::running
    led_states,        \* LedServer::led_states
    samples,           \* run(): the samples taken and not yet iterated over
    response_topic,    \* the responses the server has published
    last_request,      \* history: color index -> the request processed last
    invalid_skipped,   \* history: the for loop of run() has stepped over an
                       \* invalid sample
    reprocessed        \* history: the server has processed a request equal
                       \* to the one it processed last for that color

main_vars == << main_pc, shutdown_flag, server_matched >>

client_vars == << client_pc, initial_sent, running, request_counter,
                  pending_requests, request_topic, out, stale_dropped,
                  written, foreign_matched, main_vars >>

server_vars == << server_pc, server_running, led_states, samples,
                  response_topic, last_request, invalid_skipped,
                  reprocessed >>

vars == << now, client_vars, server_vars >>

(***************************************************************************)
(* std::map                                                                *)
(***************************************************************************)
EmptyMap == [k \in {} |-> 0]

\* m[k] = v
MapPut(m, k, v) == [j \in DOMAIN m \cup {k} |-> IF j = k THEN v ELSE m[j]]

\* m.erase(it), it at key k
MapErase(m, k) == [j \in DOMAIN m \ {k} |-> m[j]]

\* the iterator after key k (m.begin() for k below every key), End past the last
NextKey(m, k) ==
    IF \E j \in DOMAIN m : j > k
    THEN CHOOSE j \in DOMAIN m : j > k /\ \A i \in DOMAIN m : i > k => j <= i
    ELSE End

(***************************************************************************)
(* Messages                                                                *)
(***************************************************************************)
LedRequest(id, color, state) ==
    [request_id |-> id, color |-> color, state |-> state]

LedResponse(id, success, color, state) ==
    [request_id |-> id, success |-> success, color |-> color, state |-> state]

Sample(valid, data) == [valid |-> valid, data |-> data]

\* no request yet (id 0 is never assigned)
NoRequest == LedRequest(0, "RED", FALSE)

\* sequences over S of length at most n
RECURSIVE SeqsUpTo(_, _)
SeqsUpTo(S, n) ==
    IF n = 0 THEN { << >> }
    ELSE LET shorter == SeqsUpTo(S, n - 1)
         IN shorter \cup { Append(q, x) : q \in shorter, x \in S }

\* the request a session of the client program sends as its i-th
SessionRequest(i) ==
    LedRequest(i, InitialRequests[i].color, InitialRequests[i].state)

SessionIds == 1..Len(InitialRequests)

\* an id no session of the client program sends
UnknownId == Len(InitialRequests) + 1

\* The responses the transport delivers to the client: the server's answers
\* to the requests of a session of the client program (this one's or
\* another's: their ids are the same), and an answer to an unknown id.
EnvResponses ==
    { LedResponse(i, TRUE, InitialRequests[i].color, InitialRequests[i].state) :
        i \in SessionIds }
    \cup { LedResponse(UnknownId, TRUE, "RED", FALSE) }

\* Samples of the response reader: valid ones, and one the transport marks
\* invalid although its data carries the id of a request of this session.
EnvResponseSamples ==
    { Sample(TRUE, r) : r \in EnvResponses }
    \cup { Sample(FALSE, LedResponse(1, TRUE, "RED", TRUE)) }

\* What take() on the response reader may return: the new samples, in the
\* order of their arrival, the same response possibly more than once.
ResponseBatches == SeqsUpTo(EnvResponseSamples, MaxBatch)

\* Samples of the response reader on channels shared with another session
\* of the client program: the server's answers to that session's requests.
\* Their data is that of the answers to this session's requests (both count
\* their ids from 1); `foreign` marks them for the history and is no field
\* the client can read.
ForeignSample(response) ==
    [valid |-> TRUE, data |-> response, foreign |-> TRUE]

IsForeign(sample) == "foreign" \in DOMAIN sample

ForeignResponseSamples ==
    { ForeignSample(r) : r \in { x \in EnvResponses : x.request_id \in SessionIds } }

SharedBatches == SeqsUpTo(EnvResponseSamples \cup ForeignResponseSamples, MaxBatch)

\* how often x is in seq
Occurrences(seq, x) == Cardinality({ i \in 1..Len(seq) : seq[i] = x })

\* of the samples taken, a foreign one is not among the dropped: it was
\* matched
ForeignMatched(taken, dropped) ==
    \E i \in 1..Len(taken) :
        /\ IsForeign(taken[i])
        /\ Occurrences(taken, taken[i]) > Occurrences(dropped, taken[i])

\* The requests the transport delivers to the server: those of the sessions
\* of the client program, and requests of other writers turning LEDs off.
EnvRequests ==
    { SessionRequest(i) : i \in SessionIds }
    \cup { LedRequest(1, "RED", FALSE), LedRequest(2, "GREEN", FALSE) }

EnvRequestSamples ==
    { Sample(TRUE, q) : q \in EnvRequests }
    \cup { Sample(FALSE, LedRequest(3, "BLUE", FALSE)) }

RequestBatches == SeqsUpTo(EnvRequestSamples, MaxBatch)

(***************************************************************************)
(* Client: events printed                                                  *)
(***************************************************************************)
\* "Received response for request ID: ..." with the response's fields and
\* the latency in milliseconds
MatchEvent(response, issue, t) ==
    [type |-> "match", request_id |-> response.request_id,
     success |-> response.success, color |-> response.color,
     state |-> response.state,
     latency |-> (t - issue) * MsPerSecond]

\* "Timeout for request ID: ..."
TimeoutEvent(id) == [type |-> "timeout", request_id |-> id]

(***************************************************************************)
(* Client: checkResponses                                                  *)
(***************************************************************************)
\* (mutant) sample.info().valid() is not tested
Found_IgnoresValidity(pend, sample) ==
    sample.data.request_id \in DOMAIN pend

\* sample.info().valid() and it != pending_requests.end() after
\* find(response.request_id())
Found(pend, sample) ==
    sample.valid /\ sample.data.request_id \in DOMAIN pend

\* (mutant) the match does not erase the entry
DrainSample_NoErase(acc, sample, t) ==
    IF Found(acc.pending, sample)
    THEN [pending |-> acc.pending,
          events |-> Append(acc.events,
                            MatchEvent(sample.data,
                                       acc.pending[sample.data.request_id], t)),
          dropped |-> acc.dropped]
    ELSE [acc EXCEPT !.dropped = Append(@, sample)]

\* (mutant) pending_requests[id] in place of find(id): an id that is not
\* pending is matched too, with the time of the lookup as its issue time
DrainSample_NoFind(acc, sample, t) ==
    IF sample.valid
    THEN [pending |-> MapErase(acc.pending, sample.data.request_id),
          events |-> Append(acc.events,
                            MatchEvent(sample.data,
                                       IF sample.data.request_id \in DOMAIN acc.pending
                                       THEN acc.pending[sample.data.request_id]
                                       ELSE t,
                                       t)),
          dropped |-> acc.dropped]
    ELSE [acc EXCEPT !.dropped = Append(@, sample)]

\* (mutant) correlation by arrival order: a response is matched to the
\* oldest pending request
DrainSample_Oldest(acc, sample, t) ==
    IF Found(acc.pending, sample)
    THEN [pending |-> MapErase(acc.pending, sample.data.request_id),
          events |-> Append(acc.events,
                            MatchEvent(sample.data,
                                       acc.pending[NextKey(acc.pending, End)], t)),
          dropped |-> acc.dropped]
    ELSE [acc EXCEPT !.dropped = Append(@, sample)]

\* one pass of the drain loop's body: a valid sample whose id is pending
\* prints a match event and erases the entry; any other sample is dropped
\* (`dropped` lists them for the history)
DrainSample(acc, sample, t) ==
    IF Found(acc.pending, sample)
    THEN [pending |-> MapErase(acc.pending, sample.data.request_id),
          events |-> Append(acc.events,
                            MatchEvent(sample.data,
                                       acc.pending[sample.data.request_id], t)),
          dropped |-> acc.dropped]
    ELSE [acc EXCEPT !.dropped = Append(@, sample)]

\* the drain loop over the samples taken
RECURSIVE DrainLoop(_, _, _)
DrainLoop(taken, acc, t) ==
    IF taken = << >> THEN acc
    ELSE DrainLoop(Tail(taken), DrainSample(acc, Head(taken), t), t)

Drain(taken, pend, t) ==
    DrainLoop(taken, [pending |-> pend, events |-> << >>, dropped |-> << >>], t)

\* (mutant) now - it->second >= 5s
Expired_AtDeadline(t, issue) == t - issue >= Deadline

\* (mutant) no entry ever expires
Expired_Never(t, issue) == FALSE

\* now - it->second > 5s
Expired(t, issue) == t - issue > Deadline

\* (mutant) `it = erase(it)` followed by `++it`: the entry after an erased
\* one is stepped over unseen
RECURSIVE SweepFrom_SkipsNext(_, _, _)
SweepFrom_SkipsNext(it, acc, t) ==
    IF it = End THEN acc
    ELSE IF Expired(t, acc.pending[it])
         THEN SweepFrom_SkipsNext(
                  IF NextKey(acc.pending, it) = End THEN End
                  ELSE NextKey(acc.pending, NextKey(acc.pending, it)),
                  [pending |-> MapErase(acc.pending, it),
                   events |-> Append(acc.events, TimeoutEvent(it))],
                  t)
         ELSE SweepFrom_SkipsNext(NextKey(acc.pending, it), acc, t)

\* the sweep loop from iterator `it`: an expired entry prints a timeout
\* event and is erased (erase returns the next iterator), another is stepped
\* over
RECURSIVE SweepFrom(_, _, _)
SweepFrom(it, acc, t) ==
    IF it = End THEN acc
    ELSE IF Expired(t, acc.pending[it])
         THEN SweepFrom(NextKey(acc.pending, it),
                        [pending |-> MapErase(acc.pending, it),
                         events |-> Append(acc.events, TimeoutEvent(it))],
                        t)
         ELSE SweepFrom(NextKey(acc.pending, it), acc, t)

Sweep(pend, t) ==
    SweepFrom(NextKey(pend, End), [pending |-> pend, events |-> << >>], t)

\* (mutant) the sweep runs before the drain
CheckResponsesResult_SweepFirst(taken, pend, t) ==
    LET swept == Sweep(pend, t)
        drained == Drain(taken, swept.pending, t)
    IN [pending |-> drained.pending,
        events |-> swept.events \o drained.events,
        dropped |-> drained.dropped]

\* checkResponses() on the samples taken: drain, then sweep
CheckResponsesResult(taken, pend, t) ==
    LET drained == Drain(taken, pend, t)
        swept == Sweep(drained.pending, t)
    IN [pending |-> swept.pending,
        events |-> drained.events \o swept.events,
        dropped |-> drained.dropped]

(***************************************************************************)
(* Server: processRequest                                                  *)
(***************************************************************************)
\* (mutant) the LED is switched on whatever the request asks
ApplyRequest_AlwaysOn(leds, request) ==
    [leds EXCEPT ![color_index(request.color)] = TRUE]

\* (mutant) the LED is toggled by a request to switch it on
ApplyRequest_Toggle(leds, request) ==
    [leds EXCEPT ![color_index(request.color)] =
        IF request.state THEN ~leds[color_index(request.color)] ELSE FALSE]

\* led_states[color_index] = request.state()
ApplyRequest(leds, request) ==
    [leds EXCEPT ![color_index(request.color)] = request.state]

\* (mutant) response.request_id(...) is left out: the id stays 0
ResponseTo_NoEcho(request) ==
    LedResponse(0, TRUE, request.color, request.state)

\* the response processRequest prepares
ResponseTo(request) ==
    LedResponse(request.request_id, TRUE, request.color, request.state)

(***************************************************************************)
(* Initial state: both objects constructed, the client's main() waiting    *)
(* for a signal, neither run() has started.                                *)
(***************************************************************************)
Init ==
    /\ now = 0
    /\ client_pc = "initial"
    /\ initial_sent = 0
    /\ running = TRUE
    /\ request_counter = 0
    /\ pending_requests = EmptyMap
    /\ request_topic = {}
    /\ out = << >>
    /\ stale_dropped = FALSE
    /\ written = << >>
    /\ foreign_matched = FALSE
    /\ main_pc = "wait"
    /\ shutdown_flag = FALSE
    /\ server_matched = TRUE
    /\ server_pc = "take"
    /\ server_running = TRUE
    /\ led_states = [i \in 0..2 |-> FALSE]
    /\ samples = << >>
    /\ response_topic = {}
    /\ last_request = [i \in 0..2 |-> NoRequest]
    /\ invalid_skipped = FALSE
    /\ reprocessed = FALSE

(***************************************************************************)
(* Client actions                                                          *)
(***************************************************************************)
\* (mutant) the request is written and not recorded
sendRequest_NotRecorded(color, state) ==
    LET request == LedRequest(request_counter + 1, color, state)
    IN /\ request_counter' = request_counter + 1
       /\ request_topic' = request_topic \cup {request}
       /\ written' = Append(written, request)
       /\ pending_requests' = pending_requests

\* (mutant) request_counter++ in place of ++request_counter
sendRequest_PostIncrement(color, state) ==
    LET request == LedRequest(request_counter, color, state)
    IN /\ request_counter' = request_counter + 1
       /\ request_topic' = request_topic \cup {request}
       /\ written' = Append(written, request)
       /\ pending_requests' = MapPut(pending_requests, request.request_id, now)

\* sendRequest(color, state), its write succeeding
sendRequest(color, state) ==
    LET request == LedRequest(request_counter + 1, color, state)
    IN /\ request_counter' = request_counter + 1
       /\ request_topic' = request_topic \cup {request}
       /\ written' = Append(written, request)
       /\ pending_requests' = MapPut(pending_requests, request.request_id, now)

\* run(): the next of the initial requests is sent
SendRequest ==
    /\ client_pc = "initial"
    /\ LET r == InitialRequests[initial_sent + 1]
       IN sendRequest(r.color, r.state)
    /\ initial_sent' = initial_sent + 1
    /\ client_pc' = IF initial_sent' = Len(InitialRequests) THEN "loop" ELSE "initial"
    /\ UNCHANGED << now, running, out, stale_dropped, foreign_matched,
                    main_vars, server_vars >>

\* run(): the next of the initial requests, its write throwing: the counter
\* is incremented, nothing is recorded, and the exception leaves run()
\* outside its try block, which terminates the process
SendRequestThrows ==
    /\ client_pc = "initial"
    /\ request_counter' = request_counter + 1
    /\ client_pc' = "terminated"
    /\ UNCHANGED << now, initial_sent, running, pending_requests,
                    request_topic, out, stale_dropped, written,
                    foreign_matched, main_vars, server_vars >>

\* (mutant) the tick writes again the request of every id that timed out
CheckResponsesOn_ResendsTimedOut(taken) ==
    /\ client_pc = "loop"
    /\ running
    /\ \E res \in {CheckResponsesResult(taken, pending_requests, now)} :
          /\ pending_requests' = res.pending
          /\ out' = out \o res.events
          /\ stale_dropped' =
                (stale_dropped \/ \E i \in 1..Len(res.dropped) :
                                     /\ res.dropped[i].valid
                                     /\ res.dropped[i].data.request_id \in SessionIds)
          /\ foreign_matched' =
                (foreign_matched \/ ForeignMatched(taken, res.dropped))
          /\ written' =
                written \o SelectSeq(written,
                              LAMBDA q : \E i \in 1..Len(res.events) :
                                            res.events[i] = TimeoutEvent(q.request_id))
    /\ UNCHANGED << now, client_pc, initial_sent, running, request_counter,
                    request_topic, main_vars, server_vars >>

\* one iteration of the loop of run(), take() returning `taken`
CheckResponsesOn(taken) ==
    /\ client_pc = "loop"
    /\ running
    /\ \E res \in {CheckResponsesResult(taken, pending_requests, now)} :
          /\ pending_requests' = res.pending
          /\ out' = out \o res.events
          /\ stale_dropped' =
                (stale_dropped \/ \E i \in 1..Len(res.dropped) :
                                     /\ res.dropped[i].valid
                                     /\ res.dropped[i].data.request_id \in SessionIds)
          /\ foreign_matched' =
                (foreign_matched \/ ForeignMatched(taken, res.dropped))
    /\ UNCHANGED << now, client_pc, initial_sent, running, request_counter,
                    request_topic, written, main_vars, server_vars >>

CheckResponses == \E taken \in ResponseBatches : CheckResponsesOn(taken)

\* one iteration of the loop of run(), take() throwing: the catch block
\* prints the exception, neither drain nor sweep runs, the loop goes on
CheckResponsesThrows ==
    /\ client_pc = "loop"
    /\ running
    /\ UNCHANGED vars

\* while(running) found false: run() returns
LoopExit ==
    /\ client_pc = "loop"
    /\ ~running
    /\ client_pc' = "returned"
    /\ UNCHANGED << now, initial_sent, running, request_counter,
                    pending_requests, request_topic, out, stale_dropped,
                    written, foreign_matched, main_vars, server_vars >>

\* a shutdown signal, seen by main(), which calls stop() and goes on to
\* join the thread
Stop ==
    /\ running
    /\ client_pc # "terminated"
    /\ main_pc = "wait"
    /\ shutdown_flag' = TRUE
    /\ running' = FALSE
    /\ main_pc' = "join"
    /\ UNCHANGED << now, client_pc, initial_sent, request_counter,
                    pending_requests, request_topic, out, stale_dropped,
                    written, foreign_matched, server_matched, server_vars >>

\* The steady clock advances while the client's thread runs.  The initial
\* requests of run() (sleeps of 500ms apart) are sent early enough for their
\* deadlines to pass before MaxTime.
Elapse ==
    /\ client_pc \in {"initial", "loop"}
    /\ now < MaxTime
    /\ client_pc = "initial" => now < MaxTime - Deadline - 1
    /\ now' = now + 1
    /\ UNCHANGED << client_vars, server_vars >>

ClientNext ==
    \/ SendRequest
    \/ SendRequestThrows
    \/ CheckResponses
    \/ CheckResponsesThrows
    \/ LoopExit
    \/ Stop
    \/ Elapse

SpecClient == Init /\ [][ClientNext]_vars

(***************************************************************************)
(* The client process from the start of main(): the main thread constructs *)
(* the LedClient, starts the thread that runs run(), waits for             *)
(* shutdown_flag, calls stop() and joins the thread.  The signal handler   *)
(* runs whenever a signal is delivered.                                    *)
(***************************************************************************)
\* main() entered, the handlers installed, the LedClient under construction
InitMain ==
    /\ now = 0
    /\ client_pc = "unstarted"
    /\ initial_sent = 0
    /\ running = TRUE
    /\ request_counter = 0
    /\ pending_requests = EmptyMap
    /\ request_topic = {}
    /\ out = << >>
    /\ stale_dropped = FALSE
    /\ written = << >>
    /\ foreign_matched = FALSE
    /\ main_pc = "construct"
    /\ shutdown_flag = FALSE
    /\ server_matched = FALSE
    /\ server_pc = "take"
    /\ server_running = TRUE
    /\ led_states = [i \in 0..2 |-> FALSE]
    /\ samples = << >>
    /\ response_topic = {}
    /\ last_request = [i \in 0..2 |-> NoRequest]
    /\ invalid_skipped = FALSE
    /\ reprocessed = FALSE

\* the process is running: main() has not returned and std::terminate has
\* not been called
Alive ==
    /\ main_pc \notin {"return 0", "return 1"}
    /\ client_pc # "terminated"

\* SIGINT or SIGTERM delivered: signal_handler sets shutdown_flag
Signal ==
    /\ Alive
    /\ ~shutdown_flag
    /\ shutdown_flag' = TRUE
    /\ UNCHANGED << now, client_pc, initial_sent, running, request_counter,
                    pending_requests, request_topic, out, stale_dropped,
                    written, foreign_matched, main_pc, server_matched,
                    server_vars >>

\* transport: a server's request reader is matched with request_writer
Discover ==
    /\ Alive
    /\ ~server_matched
    /\ server_matched' = TRUE
    /\ UNCHANGED << now, client_pc, initial_sent, running, request_counter,
                    pending_requests, request_topic, out, stale_dropped,
                    written, foreign_matched, main_pc, shutdown_flag,
                    server_vars >>

\* LedClient(): publication_matched_status().current_count() < 1: the
\* do-while sleeps 100ms and reads the status again
MainConstructorWaits ==
    /\ main_pc = "construct"
    /\ ~server_matched
    /\ UNCHANGED vars

\* LedClient(): current_count() >= 1, the constructor returns and main()
\* starts client_thread, then waits for shutdown_flag
MainStartsThread ==
    /\ main_pc = "construct"
    /\ server_matched
    /\ main_pc' = "wait"
    /\ client_pc' = "initial"
    /\ UNCHANGED << now, initial_sent, running, request_counter,
                    pending_requests, request_topic, out, stale_dropped,
                    written, foreign_matched, shutdown_flag, server_matched,
                    server_vars >>

\* LedClient(): a DDS call of the constructor throws: main() catches it and
\* returns 1
MainConstructorThrows ==
    /\ main_pc = "construct"
    /\ main_pc' = "return 1"
    /\ UNCHANGED << now, client_pc, initial_sent, running, request_counter,
                    pending_requests, request_topic, out, stale_dropped,
                    written, foreign_matched, shutdown_flag, server_matched,
                    server_vars >>

\* (mutant) main() calls manualControl, and so sendRequest, on its own
\* thread before it stops the client
MainStop_ManualControl ==
    /\ main_pc = "wait"
    /\ client_pc # "terminated"
    /\ shutdown_flag
    /\ sendRequest("RED", FALSE)
    /\ running' = FALSE
    /\ main_pc' = "join"
    /\ UNCHANGED << now, client_pc, initial_sent, out, stale_dropped,
                    foreign_matched, shutdown_flag, server_matched,
                    server_vars >>

\* main(): while(!shutdown_flag) left, client.stop() called
MainStop ==
    /\ main_pc = "wait"
    /\ client_pc # "terminated"
    /\ shutdown_flag
    /\ running' = FALSE
    /\ main_pc' = "join"
    /\ UNCHANGED << now, client_pc, initial_sent, request_counter,
                    pending_requests, request_topic, out, stale_dropped,
                    written, foreign_matched, shutdown_flag, server_matched,
                    server_vars >>

\* main(): client_thread.join() returns once run() has returned; main()
\* returns 0
MainJoin ==
    /\ main_pc = "join"
    /\ client_pc = "returned"
    /\ main_pc' = "return 0"
    /\ UNCHANGED << now, client_pc, initial_sent, running, request_counter,
                    pending_requests, request_topic, out, stale_dropped,
                    written, foreign_matched, shutdown_flag, server_matched,
                    server_vars >>

ClientMainNext ==
    \/ Signal
    \/ Discover
    \/ MainConstructorWaits
    \/ MainStartsThread
    \/ MainConstructorThrows
    \/ MainStop
    \/ MainJoin
    \/ SendRequest
    \/ SendRequestThrows
    \/ CheckResponses
    \/ CheckResponsesThrows
    \/ LoopExit
    \/ Elapse

SpecClientMain == InitMain /\ [][ClientMainNext]_vars

\* Fairness: the main thread and the thread of run() both keep executing
\* their statements, and the steady clock advances.  When a server is
\* discovered, and what take() returns, are the transport's choice.
SpecClientMainFair ==
    /\ SpecClientMain
    /\ WF_vars(MainStartsThread)
    /\ WF_vars(MainStop)
    /\ WF_vars(MainJoin)
    /\ WF_vars(SendRequest)
    /\ WF_vars(CheckResponsesOn(<< >>))
    /\ WF_vars(LoopExit)
    /\ WF_vars(Elapse)

(***************************************************************************)
(* The client on channels shared with another session of the client        *)
(* program: take() also returns the answers to that session's requests.    *)
(***************************************************************************)
CheckSharedResponses == \E taken \in SharedBatches : CheckResponsesOn(taken)

SharedChannelNext ==
    \/ SendRequest
    \/ SendRequestThrows
    \/ CheckSharedResponses
    \/ CheckResponsesThrows
    \/ LoopExit
    \/ Stop
    \/ Elapse

SpecSharedChannel == Init /\ [][SharedChannelNext]_vars

(***************************************************************************)
(* Server actions                                                          *)
(***************************************************************************)
\* run(): take() returns `taken`
ServerTakeOn(taken) ==
    /\ server_pc = "take"
    /\ server_running
    /\ samples' = taken
    /\ server_pc' = "process"
    /\ UNCHANGED << now, client_vars, server_running, led_states,
                    response_topic, last_request, invalid_skipped,
                    reprocessed >>

ServerTake == \E taken \in RequestBatches : ServerTakeOn(taken)

\* run(): take() throws: the catch block prints the exception, the loop goes on
ServerTakeThrows ==
    /\ server_pc = "take"
    /\ server_running
    /\ UNCHANGED vars

\* processRequest(request), its write succeeding
processRequest(request) ==
    /\ led_states' = ApplyRequest(led_states, request)
    /\ response_topic' = response_topic \cup {ResponseTo(request)}
    /\ last_request' = [last_request EXCEPT ![color_index(request.color)] = request]

\* the sample is valid and its request is the one processed last for its
\* color
Repeats(sample) ==
    /\ sample.valid
    /\ last_request[color_index(sample.data.color)] = sample.data

\* run(): the for loop handles its next sample: a valid one is processed, an
\* invalid one is skipped
ServerProcess ==
    /\ server_pc = "process"
    /\ samples # << >>
    /\ IF Head(samples).valid
       THEN processRequest(Head(samples).data)
       ELSE UNCHANGED << led_states, response_topic, last_request >>
    /\ invalid_skipped' = (invalid_skipped \/ ~Head(samples).valid)
    /\ reprocessed' = (reprocessed \/ Repeats(Head(samples)))
    /\ samples' = Tail(samples)
    /\ UNCHANGED << now, client_vars, server_pc, server_running >>

\* run(): processRequest's write throws after the LED state is set: the
\* exception leaves the for loop, the catch block prints it, and the rest of
\* the samples taken is gone
ServerProcessThrows ==
    /\ server_pc = "process"
    /\ samples # << >>
    /\ Head(samples).valid
    /\ LET request == Head(samples).data
       IN /\ led_states' = ApplyRequest(led_states, request)
          /\ last_request' = [last_request EXCEPT ![color_index(request.color)] = request]
    /\ reprocessed' = (reprocessed \/ Repeats(Head(samples)))
    /\ samples' = << >>
    /\ server_pc' = "take"
    /\ UNCHANGED << now, client_vars, server_running, response_topic,
                    invalid_skipped >>

\* run(): the for loop is over; the states are displayed when due and
\* waitset.wait() returns (or throws, which the catch block prints)
ServerWait ==
    /\ server_pc = "process"
    /\ samples = << >>
    /\ server_pc' = "take"
    /\ UNCHANGED << now, client_vars, server_running, led_states, samples,
                    response_topic, last_request, invalid_skipped,
                    reprocessed >>

\* while (running) found false: run() returns
ServerLoopExit ==
    /\ server_pc = "take"
    /\ ~server_running
    /\ server_pc' = "returned"
    /\ UNCHANGED << now, client_vars, server_running, led_states, samples,
                    response_topic, last_request, invalid_skipped,
                    reprocessed >>

\* stop(), called by main after a shutdown signal
ServerStop ==
    /\ server_running
    /\ server_running' = FALSE
    /\ UNCHANGED << now, client_vars, server_pc, led_states, samples,
                    response_topic, last_request, invalid_skipped,
                    reprocessed >>

ServerNext ==
    \/ ServerTake
    \/ ServerTakeThrows
    \/ ServerProcess
    \/ ServerProcessThrows
    \/ ServerWait
    \/ ServerLoopExit
    \/ ServerStop

SpecServer == Init /\ [][ServerNext]_vars

(***************************************************************************)
(* The client alone or the server alone.  The two processes share no       *)
(* state, only the transport, which is the environment of both: a claim    *)
(* about both is checked on the behaviours of each of them against         *)
(* everything the transport can do.                                        *)
(***************************************************************************)
\* the client has not taken a step
ClientAtStart ==
    /\ now = 0
    /\ client_pc = "initial"
    /\ initial_sent = 0
    /\ request_counter = 0
    /\ running

\* the server is where it started
ServerAtStart ==
    /\ server_pc = "take"
    /\ server_running
    /\ samples = << >>
    /\ response_topic = {}
    /\ \A i \in 0..2 : last_request[i] = NoRequest
    /\ ~invalid_skipped
    /\ ~reprocessed

EitherNext ==
    \/ ServerAtStart /\ SendRequest
    \/ ServerAtStart /\ SendRequestThrows
    \/ ServerAtStart /\ CheckResponses
    \/ ServerAtStart /\ CheckResponsesThrows
    \/ ServerAtStart /\ LoopExit
    \/ ServerAtStart /\ Stop
    \/ ServerAtStart /\ Elapse
    \/ ClientAtStart /\ ServerTake
    \/ ClientAtStart /\ ServerTakeThrows
    \/ ClientAtStart /\ ServerProcess
    \/ ClientAtStart /\ ServerProcessThrows
    \/ ClientAtStart /\ ServerWait
    \/ ClientAtStart /\ ServerLoopExit
    \/ ClientAtStart /\ ServerStop

SpecEither == Init /\ [][EitherNext]_vars

(***************************************************************************)
(* Fairness: run() executes its statements one after the other, its loop   *)
(* calls checkResponses() on every iteration, and the steady clock         *)
(* advances.  A take() that throws is transient: some iteration's take()   *)
(* returns.  What take() returns is the transport's choice and no fairness *)
(* is assumed of it: the fairness of the loop is stated for the iteration  *)
(* whose take() returns no sample, which is enabled with a changed state   *)
(* exactly when the sweep has an entry to erase, and every iteration       *)
(* whose take() returns erases the same entries.                           *)
(***************************************************************************)
SpecClientFair ==
    /\ SpecClient
    /\ WF_vars(SendRequest)
    /\ WF_vars(CheckResponsesOn(<< >>))
    /\ WF_vars(Elapse)

(***************************************************************************)
(* Observations on the client's output                                     *)
(***************************************************************************)
\* every id a request or a response of the model carries
AllIds == 0..UnknownId

\* the ids of the requests published
SentIds == { q.request_id : q \in request_topic }

\* the number of events of a type for id R in a sequence of events
Count(events, type, R) ==
    Cardinality({ i \in 1..Len(events) :
                    events[i].type = type /\ events[i].request_id = R })

MatchCount(R) == Count(out, "match", R)

TimeoutCount(R) == Count(out, "timeout", R)

\* the valid response to session request R, as a sample
ResponseSample(R) ==
    Sample(TRUE, LedResponse(R, TRUE, InitialRequests[R].color,
                             InitialRequests[R].state))

\* a valid sample with request_id R is among the samples taken
HasResponse(taken, R) ==
    \E i \in 1..Len(taken) : taken[i].valid /\ taken[i].data.request_id = R

(***************************************************************************)
(* C1  For every request id R the client prints at most one terminal       *)
(* event: never a match event and a timeout event both, never either       *)
(* twice, whatever samples (repeated, reordered) the ticks drain.  A       *)
(* terminal event is printed only for a request that was sent, and an id   *)
(* with a terminal event is not pending again: SENT -> MATCHED or          *)
(* SENT -> TIMED_OUT, both terminal.                                       *)
(***************************************************************************)
C1_AtMostOneTerminalEvent ==
    \A R \in AllIds :
        /\ MatchCount(R) + TimeoutCount(R) <= 1
        /\ MatchCount(R) + TimeoutCount(R) = 1 =>
              R \in SentIds /\ R \notin DOMAIN pending_requests

\* request 1 was matched, request 2 timed out, and a response to one of
\* them was drained again after its terminal event
C1_Witness ==
    /\ MatchCount(1) = 1
    /\ TimeoutCount(2) = 1
    /\ DOMAIN pending_requests = {3}
    /\ stale_dropped

(***************************************************************************)
(* C2  Every request sent eventually has its terminal event (matched or    *)
(* timed out), unless the client process terminates or is told to stop:    *)
(* under SpecClientFair, whatever samples the transport delivers.          *)
(***************************************************************************)
C2_EveryRequestTerminates ==
    \A R \in SessionIds :
        (R \in SentIds) ~>
            \/ MatchCount(R) + TimeoutCount(R) = 1
            \/ client_pc = "terminated"
            \/ ~running

\* all three requests sent and terminal while the loop runs, the last of
\* them by timeout
C2_Witness ==
    /\ client_pc = "loop" /\ running
    /\ \A R \in SessionIds : MatchCount(R) + TimeoutCount(R) = 1
    /\ TimeoutCount(Len(InitialRequests)) = 1

(***************************************************************************)
(* C3  Between the operations of the client, id R is a key of              *)
(* pending_requests exactly when a request with id R has been sent and     *)
(* neither a match nor a timeout has been processed for R.                 *)
(***************************************************************************)
C3_PendingIffSentAndOpen ==
    \A R \in AllIds :
        R \in DOMAIN pending_requests
            <=> (R \in SentIds /\ MatchCount(R) = 0 /\ TimeoutCount(R) = 0)

\* request 1 matched, request 2 timed out, request 3 still pending
C3_Witness ==
    /\ MatchCount(1) = 1 /\ 1 \notin DOMAIN pending_requests
    /\ TimeoutCount(2) = 1 /\ 2 \notin DOMAIN pending_requests
    /\ 3 \in DOMAIN pending_requests

(***************************************************************************)
(* C4  The ids sendRequest assigns within a session are strictly           *)
(* increasing, never repeat and are greater than zero; the first is 1, and *)
(* 0 is never a key of pending_requests.  (The counter is an unsigned      *)
(* long; a session sends three requests, far from its wrap.)               *)
(***************************************************************************)
C4_IdsIncreasing ==
    /\ [](/\ \A q \in request_topic : q.request_id > 0
          /\ \A p, q \in request_topic : p.request_id = q.request_id => p = q
          /\ request_topic # {} => 1 \in SentIds
          /\ 0 \notin DOMAIN pending_requests)
    /\ [][request_topic' # request_topic =>
            \E q \in request_topic' :
                /\ q \notin request_topic
                /\ request_topic' = request_topic \cup {q}
                /\ \A p \in request_topic : p.request_id < q.request_id
                /\ q.request_id \in DOMAIN pending_requests'
                /\ request_topic = {} => q.request_id = 1]_vars

\* three requests sent, with three ids
C4_Witness ==
    /\ Cardinality(request_topic) = Len(InitialRequests)
    /\ SentIds = 1..Len(InitialRequests)

(***************************************************************************)
(* What a tick does, seen from the state it starts in: the client is in    *)
(* its loop with running set, take() returns `taken`, and checkResponses() *)
(* turns                                                                   *)
(* pending_requests into res.pending and prints res.events.                *)
(***************************************************************************)
InLoop == client_pc = "loop" /\ running

\* the entries of pend that are not older than the deadline at time t
Unexpired(pend, t) ==
    [k \in { j \in DOMAIN pend : ~(t - pend[j] > Deadline) } |-> pend[k]]

(***************************************************************************)
(* C5 as stated  A pending request R with no response among the samples    *)
(* drained is timed out by the tick at which now - issue >= 5 s.           *)
(* (Violated: at now - issue = 5 s exactly the sweep keeps the entry.)     *)
(***************************************************************************)
C5_TimeoutAtDeadline ==
    InLoop =>
        \A taken \in ResponseBatches :
            \A res \in {CheckResponsesResult(taken, pending_requests, now)} :
                \A R \in DOMAIN pending_requests :
                    (now - pending_requests[R] >= Deadline /\ ~HasResponse(taken, R))
                        => Count(res.events, "timeout", R) = 1

(***************************************************************************)
(* C5 amended  A tick whose take() returns prints a timeout event for a    *)
(* pending request R exactly when now - issue > 5 s (strictly) and no      *)
(* valid response to R is among the samples it drained, prints it once and *)
(* erases the entry; no timeout event is printed for an id that is not     *)
(* pending, and over its lifetime a request has at most one timeout event. *)
(* So the timeout comes at the first such tick and never at a tick with    *)
(* now - issue <= 5 s.                                                     *)
(***************************************************************************)
C5_TimeoutAfterDeadline ==
    /\ \A R \in AllIds : TimeoutCount(R) <= 1
    /\ InLoop =>
        \A taken \in ResponseBatches :
            \A res \in {CheckResponsesResult(taken, pending_requests, now)} :
                /\ \A R \in DOMAIN pending_requests :
                      /\ Count(res.events, "timeout", R) =
                            IF now - pending_requests[R] > Deadline
                               /\ ~HasResponse(taken, R)
                            THEN 1 ELSE 0
                      /\ Count(res.events, "timeout", R) = 1
                            => R \notin DOMAIN res.pending
                /\ \A R \in AllIds \ DOMAIN pending_requests :
                      Count(res.events, "timeout", R) = 0

\* request 1, issued at 0, timed out at 6 s, the first tick past its
\* deadline, while requests 2 and 3, issued at 1 s and exactly 5 s old,
\* stay pending
C5_Witness ==
    /\ out = << TimeoutEvent(1) >>
    /\ now = Deadline + 1
    /\ DOMAIN pending_requests = {2, 3}
    /\ \A k \in {2, 3} : now - pending_requests[k] = Deadline

(***************************************************************************)
(* C6  A tick that drains a valid response to pending request R prints     *)
(* exactly one match event for R, also when the response is in the batch   *)
(* twice, and R is no longer pending afterwards.  Delivered again in a     *)
(* later tick, the response has no effect: the tick does what a tick       *)
(* draining nothing does, and R never has a second match event.            *)
(***************************************************************************)
C6_MatchOnceThenNoOp ==
    /\ \A R \in AllIds : MatchCount(R) <= 1
    /\ InLoop =>
        /\ \A taken \in ResponseBatches :
              \A res \in {CheckResponsesResult(taken, pending_requests, now)} :
                  \A R \in DOMAIN pending_requests :
                      HasResponse(taken, R) =>
                          /\ Count(res.events, "match", R) = 1
                          /\ R \notin DOMAIN res.pending
        /\ \A R \in SessionIds :
              MatchCount(R) = 1 =>
                  \A again \in { << ResponseSample(R) >>,
                                 << ResponseSample(R), ResponseSample(R) >> } :
                      \A res \in {CheckResponsesResult(again, pending_requests, now)} :
                          \A idle \in {CheckResponsesResult(<< >>, pending_requests, now)} :
                              /\ res.pending = idle.pending
                              /\ res.events = idle.events
                              /\ Count(res.events, "match", R) = 0

\* request 3 was matched once, its response was then drained again and
\* dropped, requests 1 and 2 still pending
C6_Witness ==
    /\ MatchCount(3) = 1
    /\ stale_dropped
    /\ DOMAIN pending_requests = {1, 2}
    /\ Len(out) = 1

(***************************************************************************)
(* C7  Within a tick the drain runs before the sweep: a tick that drains a *)
(* valid response to a pending request R older than the deadline prints a  *)
(* match event and no timeout event for R, and the match events of a tick  *)
(* precede its timeout events.                                             *)
(***************************************************************************)
C7_DrainBeforeSweep ==
    InLoop =>
        \A taken \in ResponseBatches :
            \A res \in {CheckResponsesResult(taken, pending_requests, now)} :
                /\ \A R \in DOMAIN pending_requests :
                      (now - pending_requests[R] > Deadline /\ HasResponse(taken, R))
                          => /\ Count(res.events, "match", R) = 1
                             /\ Count(res.events, "timeout", R) = 0
                /\ \A i, j \in 1..Len(res.events) :
                      i < j => ~(res.events[i].type = "timeout"
                                 /\ res.events[j].type = "match")

\* one tick matched request 2 more than 5 s after its issue and then timed
\* out request 1
C7_Witness ==
    \E i \in 1..Len(out) - 1 :
        /\ out[i].type = "match" /\ out[i].request_id = 2
        /\ out[i].latency > Deadline * MsPerSecond
        /\ out[i + 1] = TimeoutEvent(1)

(***************************************************************************)
(* C8  A response whose request_id is not pending when it is drained       *)
(* (unknown id, id already matched, id already timed out) is dropped: no   *)
(* match event is printed for that id, a tick that drains only such        *)
(* responses prints no match event and changes pending_requests only by    *)
(* its sweep, and the loop goes on (it is left only once running is        *)
(* false).                                                                 *)
(***************************************************************************)
C8_MissIsDropped ==
    /\ [](InLoop =>
            \A taken \in ResponseBatches :
                \A res \in {CheckResponsesResult(taken, pending_requests, now)} :
                    /\ \A R \in AllIds \ DOMAIN pending_requests :
                          Count(res.events, "match", R) = 0
                    /\ (\A R \in DOMAIN pending_requests : ~HasResponse(taken, R))
                          => /\ \A i \in 1..Len(res.events) :
                                    res.events[i].type = "timeout"
                             /\ res.pending = Unexpired(pending_requests, now))
    /\ [][client_pc = "loop" /\ client_pc' # "loop" => ~running]_vars

\* request 1 timed out, its late response was then drained and dropped, and
\* the loop is still running with requests 2 and 3 pending
C8_Witness ==
    /\ out = << TimeoutEvent(1) >>
    /\ DOMAIN pending_requests = {2, 3}
    /\ stale_dropped
    /\ InLoop

(***************************************************************************)
(* C9  Correlation is by id.  sendRequest records the clock for the id it  *)
(* assigns and no later step changes a recorded time; every match event a  *)
(* tick prints is for a pending id R and carries the latency               *)
(* now - pending_requests[R] >= 0 in milliseconds; an entry disappears     *)
(* only if its own response was drained or its own deadline passed, and    *)
(* the other entries keep their times.                                     *)
(***************************************************************************)
C9_CorrelationById ==
    /\ [](/\ \A k \in DOMAIN pending_requests : pending_requests[k] <= now
          /\ InLoop =>
                \A taken \in ResponseBatches :
                    \A res \in {CheckResponsesResult(taken, pending_requests, now)} :
                        /\ \A i \in 1..Len(res.events) :
                              res.events[i].type = "match" =>
                                  \E R \in DOMAIN pending_requests :
                                      /\ res.events[i].request_id = R
                                      /\ HasResponse(taken, R)
                                      /\ res.events[i].latency =
                                            (now - pending_requests[R]) * MsPerSecond
                                      /\ res.events[i].latency >= 0
                        /\ DOMAIN res.pending \subseteq DOMAIN pending_requests
                        /\ \A k \in DOMAIN pending_requests :
                              IF k \in DOMAIN res.pending
                              THEN res.pending[k] = pending_requests[k]
                              ELSE \/ HasResponse(taken, k)
                                   \/ now - pending_requests[k] > Deadline)
    /\ [][\A k \in DOMAIN pending_requests' :
              IF k \in DOMAIN pending_requests
              THEN pending_requests'[k] = pending_requests[k]
              ELSE pending_requests'[k] = now /\ k = request_counter']_vars

\* requests 1 and 2, issued at different times, answered in the order 2, 1
\* in one tick: each match event has the latency of its own request
C9_Witness ==
    /\ Len(out) = 2
    /\ out[1].type = "match" /\ out[1].request_id = 2
    /\ out[2].type = "match" /\ out[2].request_id = 1
    /\ out[2].latency = out[1].latency + MsPerSecond
    /\ 3 \in DOMAIN pending_requests

(***************************************************************************)
(* C10  led_states[c] is the desired state of the valid request with color *)
(* c the server processed last, or off if it processed none; an entry of   *)
(* led_states changes only when the server processes a valid request of    *)
(* that color, which leaves the other entries as they are.                 *)
(***************************************************************************)
C10_LedStateIsLastRequest ==
    /\ [](\A c \in Colors :
            led_states[color_index(c)] =
                IF last_request[color_index(c)] = NoRequest THEN FALSE
                ELSE last_request[color_index(c)].state)
    /\ [][\A i \in 0..2 :
              led_states'[i] # led_states[i] =>
                  /\ server_pc = "process"
                  /\ samples # << >>
                  /\ Head(samples).valid
                  /\ color_index(Head(samples).data.color) = i
                  /\ led_states'[i] = Head(samples).data.state]_vars

\* RED was turned on and then off, GREEN is on, BLUE was never set
C10_Witness ==
    /\ LedResponse(1, TRUE, "RED", TRUE) \in response_topic
    /\ last_request[0] = LedRequest(1, "RED", FALSE)
    /\ led_states = [i \in 0..2 |-> i = 1]
    /\ last_request[2] = NoRequest

(***************************************************************************)
(* C11  The response the server publishes for a request it processes       *)
(* carries the request's id, its color and its desired state, and          *)
(* success = true: every step that adds a response to the response channel *)
(* is the processing of the valid sample at the head of the batch and adds *)
(* exactly that response, and every response on the channel echoes a       *)
(* request the server was handed.                                          *)
(***************************************************************************)
C11_ResponseEchoesRequest ==
    /\ [](\A r \in response_topic :
            /\ r.success
            /\ \E q \in EnvRequests :
                  /\ r.request_id = q.request_id
                  /\ r.color = q.color
                  /\ r.state = q.state)
    /\ [][response_topic' # response_topic =>
            /\ server_pc = "process"
            /\ samples # << >>
            /\ Head(samples).valid
            /\ \E r \in response_topic' \ response_topic :
                  /\ response_topic' = response_topic \cup {r}
                  /\ r.request_id = Head(samples).data.request_id
                  /\ r.color = Head(samples).data.color
                  /\ r.state = Head(samples).data.state
                  /\ r.success]_vars

\* requests 1 (RED on) and 1 (RED off) of two writers and request 3 were
\* processed: each response has the fields of its own request
C11_Witness ==
    /\ response_topic = { LedResponse(1, TRUE, "RED", TRUE),
                          LedResponse(1, TRUE, "RED", FALSE),
                          LedResponse(3, TRUE, "BLUE", TRUE) }
    /\ led_states[2]

(***************************************************************************)
(* C12  Processing is idempotent on the LED state: from every LED state    *)
(* the server reaches and for every request q (any id, color and desired   *)
(* state), applying q twice gives the LED state that applying q once       *)
(* gives; and a step of the server that processes a request equal to the   *)
(* one it processed last for that color leaves led_states as it is.        *)
(***************************************************************************)
C12_ProcessIdempotent ==
    /\ [](\A id \in AllIds, c \in Colors, st \in BOOLEAN :
            \A once \in {ApplyRequest(led_states, LedRequest(id, c, st))} :
                ApplyRequest(once, LedRequest(id, c, st)) = once)
    /\ [][(/\ server_pc = "process"
           /\ samples # << >>
           /\ Repeats(Head(samples)))
              => led_states' = led_states]_vars

\* RED on was processed twice in a row (GREEN and BLUE on before it):
\* all three LEDs are on
C12_Witness ==
    /\ reprocessed
    /\ last_request[0] = SessionRequest(1)
    /\ led_states = [i \in 0..2 |-> TRUE]
    /\ response_topic = { ResponseTo(SessionRequest(i)) : i \in SessionIds }

(***************************************************************************)
(* C13 as stated  A transport error never ends a driver loop or the        *)
(* process: the client does not terminate, and the thread of run() leaves  *)
(* its statements, on the client and on the server, only when the loop     *)
(* finds running false; this for every write and take, the client's        *)
(* initial requests included.                                              *)
(* (Violated: a write that throws in one of the three sendRequest calls at *)
(* the start of run() is outside the try block and terminates the          *)
(* process.)                                                               *)
(***************************************************************************)
C13_TransportErrorNeverTerminates ==
    /\ [](client_pc # "terminated")
    /\ [][(client_pc \in {"initial", "loop"} /\ client_pc' \notin {"initial", "loop"})
              => ~running]_vars
    /\ [][(server_pc \in {"take", "process"} /\ server_pc' \notin {"take", "process"})
              => ~server_running]_vars

(***************************************************************************)
(* C14 as stated  After a signal is delivered to the client process, at    *)
(* any point from the start of main() on, running is eventually cleared,   *)
(* run() returns, its thread is joined and main() returns 0, also when no  *)
(* server has been discovered yet.  (The runs in which the process ends by *)
(* a failure instead, main() returning 1 or the termination of C13, are    *)
(* left aside: they are not what refutes it.)                              *)
(* (Violated: the constructor of LedClient polls for a matched server on   *)
(* the main thread and never reads shutdown_flag; with no server           *)
(* discovered the process stays there for ever, signal or not.)            *)
(***************************************************************************)
C14_SignalEndsProcess ==
    shutdown_flag ~>
        \/ main_pc = "return 0" /\ ~running /\ client_pc = "returned"
        \/ ~Alive

(***************************************************************************)
(* C15 as stated  On channels shared with other sessions of the client     *)
(* program, the client never matches a response that the server produced   *)
(* for another session's request: such a response prints no match event    *)
(* and erases no entry of pending_requests.                                *)
(* (Violated: every session counts its ids from 1 and a response carries   *)
(* nothing but the id, so the answer to another session's request R is     *)
(* matched to this session's pending request R.)                           *)
(***************************************************************************)
C15_ForeignResponseDiscarded == ~foreign_matched

(***************************************************************************)
(* C16  One sweep at time now, run on the pending table as any drain can   *)
(* leave it (any part of its entries), erases exactly the entries with     *)
(* now - issue > 5 s and prints exactly one timeout event for each of      *)
(* them and nothing else; every other entry stays, with its time.  So no   *)
(* entry is stepped over or seen twice when another is erased.  A tick     *)
(* that drains nothing does exactly this to pending_requests.              *)
(***************************************************************************)
C16_SweepExact ==
    /\ \A S \in SUBSET DOMAIN pending_requests :
          \A pend \in {[k \in S |-> pending_requests[k]]} :
              \A res \in {Sweep(pend, now)} :
                  /\ DOMAIN res.pending = { k \in S : now - pend[k] <= Deadline }
                  /\ \A k \in DOMAIN res.pending : res.pending[k] = pend[k]
                  /\ \A k \in S :
                        Count(res.events, "timeout", k) =
                            IF now - pend[k] > Deadline THEN 1 ELSE 0
                  /\ Len(res.events) =
                        Cardinality({ k \in S : now - pend[k] > Deadline })
                  /\ \A i \in 1..Len(res.events) : res.events[i].type = "timeout"
    /\ InLoop =>
          \A res \in {CheckResponsesResult(<< >>, pending_requests, now)} :
              /\ res.pending = Sweep(pending_requests, now).pending
              /\ res.events = Sweep(pending_requests, now).events

\* one sweep timed out requests 1 and 2, both older than 5 s, and kept
\* request 3, which is exactly 5 s old
C16_Witness ==
    /\ out = << TimeoutEvent(1), TimeoutEvent(2) >>
    /\ DOMAIN pending_requests = {3}
    /\ now - pending_requests[3] = Deadline
    /\ ~stale_dropped

(***************************************************************************)
(* C17  An invalid sample is dropped unread on both sides.  Client: a tick *)
(* does to pending_requests, and prints, what it does on the same batch    *)
(* without its invalid samples (which carry the id of a pending request),  *)
(* so an invalid sample prints no match event, erases nothing, and the     *)
(* samples after it are drained as usual; the tick leaves the client in    *)
(* its loop.  Server: the step of the for loop at an invalid sample leaves *)
(* led_states and the response channel as they are and goes on with the    *)
(* rest of the batch.                                                      *)
(***************************************************************************)
C17_InvalidSampleDropped ==
    /\ [](InLoop =>
            \A taken \in ResponseBatches :
                \A res \in {CheckResponsesResult(taken, pending_requests, now)} :
                    \A rest \in {CheckResponsesResult(
                                     SelectSeq(taken, LAMBDA s : s.valid),
                                     pending_requests, now)} :
                        /\ res.pending = rest.pending
                        /\ res.events = rest.events)
    /\ [][(InLoop /\ out' # out) => client_pc' = "loop"]_vars
    /\ [][(/\ server_pc = "process"
           /\ samples # << >>
           /\ ~Head(samples).valid)
              => /\ led_states' = led_states
                 /\ response_topic' = response_topic
                 /\ last_request' = last_request
                 /\ samples' \in {samples, Tail(samples)}
                 /\ server_pc' = "process"]_vars

\* the server stepped over the invalid sample (BLUE off, id 3) and
\* processed request 1: RED is on, BLUE untouched, one response, for id 1,
\* and the loop goes on
C17_Witness ==
    /\ invalid_skipped
    /\ response_topic = { ResponseTo(SessionRequest(1)) }
    /\ led_states = [i \in 0..2 |-> i = 0]
    /\ last_request[2] = NoRequest
    /\ server_pc = "take"
    /\ server_running

(***************************************************************************)
(* C18 as stated  Every valid request the server has taken is processed:   *)
(* a step of the for loop at one sample leaves every valid sample after it *)
(* in the batch, to be processed in its turn, and the step at a valid      *)
(* sample sets the LED, also when the write of the response to another     *)
(* request of the batch throws.  (The response to the request whose own    *)
(* write throws is left aside: it is not what refutes the claim.)          *)
(* (Violated: a write that throws leaves the for loop, and the samples     *)
(* after it, already taken from the reader, are never processed: no LED    *)
(* set, no response.)                                                      *)
(***************************************************************************)
C18_EveryTakenRequestProcessed ==
    [][(server_pc = "process" /\ samples # << >> /\ samples' # samples)
          => /\ \A i \in 2..Len(samples) :
                   samples[i].valid =>
                       /\ Len(samples') = Len(samples) - 1
                       /\ samples'[i - 1] = samples[i]
             /\ Head(samples).valid =>
                   led_states' = ApplyRequest(led_states, Head(samples).data)]_vars


(***************************************************************************)
(* C19  The client never resends a request: no two writes on the request   *)
(* channel carry the same request id; a write happens only while run()     *)
(* sends its initial requests, one request at a time; and no iteration of  *)
(* the loop, whether it prints a timeout, drops a response it cannot       *)
(* correlate, or neither, writes a request or moves the request counter.   *)
(***************************************************************************)
C19_NoResend ==
    /\ [](\A i, j \in 1..Len(written) :
             written[i].request_id = written[j].request_id => i = j)
    /\ [][written' # written
            => /\ client_pc = "initial"
               /\ \E q \in request_topic' : written' = Append(written, q)]_vars
    /\ [][client_pc = "loop"
            => /\ written' = written
               /\ request_topic' = request_topic
               /\ request_counter' = request_counter]_vars

\* the three initial requests were written, request 1 timed out, a response
\* to a request no longer pending was dropped, and nothing else was written
C19_Witness ==
    /\ TimeoutCount(1) = 1
    /\ stale_dropped
    /\ Len(written) = Len(InitialRequests)
    /\ Cardinality(request_topic) = Len(InitialRequests)
    /\ client_pc = "loop"


(***************************************************************************)
(* C20  In the client process request_counter and pending_requests are     *)
(* touched by one thread only, the thread that runs run().  That thread    *)
(* exists only once the constructor has returned; every step that changes  *)
(* the counter or the table is a step of run() in its initial phase or in  *)
(* its loop, and is no step of main() or of the signal handler; a step of  *)
(* main() or of the signal handler changes, of the client's fields, only   *)
(* `running`.  sendRequest and checkResponses being executed by that one   *)
(* thread, no two threads are inside them at once, and the drain and the   *)
(* sweep, consecutive statements of checkResponses, follow each other      *)
(* within the one step of a tick.                                          *)
(***************************************************************************)
C20_SingleLoopThread ==
    /\ [](client_pc \in {"initial", "loop"} => main_pc \in {"wait", "join"})
    /\ [][(request_counter' # request_counter
             \/ pending_requests' # pending_requests)
            => /\ client_pc \in {"initial", "loop"}
               /\ main_pc' = main_pc
               /\ shutdown_flag' = shutdown_flag
               /\ running' = running]_vars
    /\ [][(main_pc' # main_pc \/ shutdown_flag' # shutdown_flag)
            => UNCHANGED << request_counter, pending_requests, initial_sent,
                            request_topic, written, out >>]_vars
    /\ [][(InLoop /\ client_pc' = "loop"
                  /\ (pending_requests' # pending_requests \/ out' # out))
            => \E taken \in ResponseBatches :
                  /\ pending_requests' =
                        Sweep(Drain(taken, pending_requests, now).pending,
                              now).pending
                  /\ out' = out \o Drain(taken, pending_requests, now).events
                                \o Sweep(Drain(taken, pending_requests,
                                               now).pending, now).events]_vars

\* main() has called stop() and waits in join() while the thread of run()
\* is still sending its initial requests, two of them recorded
C20_Witness ==
    /\ main_pc = "join"
    /\ shutdown_flag
    /\ ~running
    /\ client_pc = "initial"
    /\ request_counter = 2
    /\ DOMAIN pending_requests = {1, 2}

=============================================================================
